---- MODULE Spec2Model ----
(***************************************************************************)
(* A model of trf: the Acceptability scoring engine (acceptability.py),    *)
(* Modality._rates (modality.py), and Tree.depth /                         *)
(* Analyser.calc_modality_rates (analyser.py).                             *)
(*                                                                         *)
(* Representation.  A Python str is a sequence of one-character strings.   *)
(* A float is an integer count of thousandths (fixed point); math.log is   *)
(* the table Ln.  An Optional[float] is <<>> for None and <<v>> for a      *)
(* value.  A raised exception is recorded in the variable error and moves  *)
(* the constructor to pc = "raised".                                       *)
(***************************************************************************)
EXTENDS Integers, Sequences, FiniteSets, TLC

VARIABLES
    \* ---- Acceptability (acceptability.py) ----
    text,                   \* self.text
    vocabFile,              \* the file at rnnlm_model_path: [exists, lines]
    fault,                  \* how the external rnnlm process behaves this run
    pc,                     \* the statement of __init__ to run next, "done" or "raised"
    error,                  \* the exception that left __init__, or "none"
    attrs,                  \* names of the instance attributes assigned so far
    sentences,              \* self.sentences
    word_freq,              \* self.word_freq
    n_total_words,          \* self.n_total_words
    process,                \* the Popen object: [started, stdout, returncode]
    rnnlm_scores,           \* self.rnnlm_scores
    unigram_scores,         \* self.unigram_scores
    mean_unigram_scores,    \* self.mean_unigram_scores
    normalized_scores_div,  \* self.normalized_scores_div
    normalized_scores_sub,  \* self.normalized_scores_sub
    normalized_scores_len,  \* self.normalized_scores_len
    call,                   \* last public call of calc_normalized_scores: [method, exc, value]
    \* ---- Modality / Analyser.calc_modality_rates ----
    parses,                 \* per sentence, the parser's bnst_list as chunk descriptions
    m_pc, m_i, m_chunks, m_counter, m_rates,   \* Modality._rates
    a_pc, a_i, a_counter, a_rates,             \* Analyser.calc_modality_rates
    \* ---- Tree ----
    chunks,                 \* Tree.chunks, as the sequence of link fields
    t_pc, t_i, t_chunk_id, t_depth, current_tree_depth, tree_depth, t_error

accVars == <<text, vocabFile, fault, pc, error, attrs, sentences, word_freq,
             n_total_words, process, rnnlm_scores, unigram_scores,
             mean_unigram_scores, normalized_scores_div, normalized_scores_sub,
             normalized_scores_len, call>>
modVars == <<parses, m_pc, m_i, m_chunks, m_counter, m_rates,
             a_pc, a_i, a_counter, a_rates>>
treeVars == <<chunks, t_pc, t_i, t_chunk_id, t_depth, current_tree_depth,
              tree_depth, t_error>>
vars == <<accVars, modVars, treeVars>>

----------------------------------------------------------------------------
(* Bounds of the model *)

MaxLines == 2       \* lines in the input text
MaxVocab == 2       \* lines in the vocabulary resource
MaxCount == 2       \* largest count on a vocabulary line
MaxSentences == 3   \* sentences given to Modality / Analyser
MaxChunks == 3      \* chunks of a Tree
MaxRecursion == 6   \* frames of find_next_chunk the interpreter allows

----------------------------------------------------------------------------
(* Generic helpers *)

Abs(x) == IF x < 0 THEN 0 - x ELSE x
Min(a, b) == IF a < b THEN a ELSE b
SeqsUpTo(S, n) == UNION {[1..k -> S] : k \in 0..n}

None == <<>>
Some(v) == <<v>>

\* A Python dict as a function; d[k] = v creates or overwrites the key.
EmptyDict == [k \in {} |-> 0]
DictPut(d, k, v) == [x \in (DOMAIN d) \cup {k} |-> IF x = k THEN v ELSE d[x]]
DictGet(d, k, default) == IF k \in DOMAIN d THEN d[k] ELSE default

----------------------------------------------------------------------------
(* str operations *)

RECURSIVE LStrip(_)
LStrip(s) == IF s # <<>> /\ Head(s) = " " THEN LStrip(Tail(s)) ELSE s

RECURSIVE RStrip(_)
RStrip(s) ==
    IF s # <<>> /\ s[Len(s)] = " " THEN RStrip(SubSeq(s, 1, Len(s) - 1)) ELSE s

\* str.strip()
Strip(s) == RStrip(LStrip(s))

\* str.split(sep) for a one-character sep: always at least one piece.
RECURSIVE SplitOnAcc(_, _, _, _)
SplitOnAcc(s, sep, cur, acc) ==
    IF s = <<>> THEN Append(acc, cur)
    ELSE IF Head(s) = sep THEN SplitOnAcc(Tail(s), sep, <<>>, Append(acc, cur))
    ELSE SplitOnAcc(Tail(s), sep, Append(cur, Head(s)), acc)
SplitOn(s, sep) == SplitOnAcc(s, sep, <<>>, <<>>)

\* str.split() with no separator: runs of whitespace separate, no empty pieces.
RECURSIVE SplitWsAcc(_, _, _)
SplitWsAcc(s, cur, acc) ==
    IF s = <<>> THEN (IF cur = <<>> THEN acc ELSE Append(acc, cur))
    ELSE IF Head(s) = " "
         THEN SplitWsAcc(Tail(s), <<>>, IF cur = <<>> THEN acc ELSE Append(acc, cur))
    ELSE SplitWsAcc(Tail(s), Append(cur, Head(s)), acc)
SplitWs(s) == SplitWsAcc(s, <<>>, <<>>)

\* '\n'.join(lines)
RECURSIVE JoinLines(_)
JoinLines(ls) ==
    IF ls = <<>> THEN <<>>
    ELSE IF Len(ls) = 1 THEN ls[1]
    ELSE ls[1] \o <<"\n">> \o JoinLines(Tail(ls))

RECURSIVE FilterNonBlank(_)
FilterNonBlank(ls) ==
    IF ls = <<>> THEN <<>>
    ELSE IF Strip(Head(ls)) # <<>>
         THEN <<Strip(Head(ls))>> \o FilterNonBlank(Tail(ls))
         ELSE FilterNonBlank(Tail(ls))

\* [s.strip() for s in text.split('\n') if s.strip() != '']
SplitSentences(t) == FilterNonBlank(SplitOn(t, "\n"))

----------------------------------------------------------------------------
(* float arithmetic, in thousandths *)

\* math.log(k) for k in 1..10, rounded, and additive over products.
Ln == <<0, 693, 1099, 1386, 1609, 1792, 1946, 2079, 2198, 2302>>

\* math.log(x / n) for positive integers x, n
LogRatio(x, n) == Ln[x] - Ln[n]

\* a / b on floats, b # 0
FloatDiv(a, b) ==
    LET q == (Abs(a) * 1000) \div Abs(b)
    IN  IF (a < 0) = (b < 0) THEN q ELSE 0 - q

\* numpy.isclose(a, b, rtol=1e-05) with the default atol=1e-08:
\* |a - b| <= atol + rtol * |b|, both sides scaled by 1e5.
IsClose(a, b) == Abs(a - b) * 100000 <= 1 + Abs(b)

----------------------------------------------------------------------------
(* Acceptability: inputs *)

\* The reserved unknown-word key '<unk/>'
UNK == <<"<", "u", "n", "k", "/", ">">>

\* threshold=1 at the only call of _load_word_freq
Threshold == 1

\* const.OUT_OF_VOCABULARY, the scorer's sentinel line
OUT_OF_VOCABULARY == "OOV"

Methods == {"div", "sub", "len"}

\* Lines a text is made of: blank, one word, two words (one of them "b",
\* which the scorer does not know), and a padded word.
LineChoices == { <<" ">>, <<"a">>, <<"a", " ", "b">>, <<" ", "c">> }

Texts == {JoinLines(ls) : ls \in SeqsUpTo(LineChoices, MaxLines)}

Digits == <<"0", "1", "2", "3", "4", "5", "6", "7", "8", "9">>

\* A well-formed vocabulary line "<word> <count>"
VocabLine(word, count) == word \o <<" ", Digits[count + 1]>>

VocabWords == { <<"a">>, UNK }

VocabLines == {VocabLine(w, c) : w \in VocabWords, c \in 1..MaxCount}

VocabFiles ==
    {[exists |-> FALSE, lines |-> <<>>]} \cup
    {[exists |-> TRUE, lines |-> ls] : ls \in SeqsUpTo(VocabLines, MaxVocab)}

----------------------------------------------------------------------------
(* The external rnnlm process (environment) *)

Range(s) == {s[i] : i \in DOMAIN s}

NumLine(v) == [txt |-> "num", val |-> v]
TextLine(t) == [txt |-> t, val |-> 0]

\* What the scorer has to say about the i-th non-blank line of the text:
\* the sentinel when the line holds the word "b", else a log-likelihood.
ScorerReport(sents, i) ==
    IF <<"b">> \in Range(SplitWs(sents[i]))
    THEN TextLine(OUT_OF_VOCABULARY)
    ELSE NumLine(0 - i * 1000)

ScorerReports(sents) == [i \in 1..Len(sents) |-> ScorerReport(sents, i)]

Faults == {"ok", "banner", "drop", "garbled", "extra", "crash", "nostart"}

\* The stdout lines of the process under each behaviour.
ScorerStdout(t, f) ==
    LET r == ScorerReports(SplitSentences(t))
    IN  CASE f = "ok"      -> r
          [] f = "banner"  -> <<TextLine("junk")>> \o r \o <<TextLine(""), TextLine("junk")>>
          [] f = "drop"    -> IF r = <<>> THEN r ELSE Tail(r)
          [] f = "garbled" -> IF r = <<>> THEN r ELSE <<TextLine("junk")>> \o Tail(r)
          [] f = "extra"   -> <<NumLine(0 - 500)>> \o r
          [] f = "crash"   -> IF r = <<>> THEN r ELSE SubSeq(r, 1, Len(r) - 1)
          [] OTHER         -> <<>>

ScorerReturnCode(f) == IF f = "crash" THEN 1 ELSE 0

NoProcess == [started |-> FALSE, stdout |-> <<>>, returncode |-> 0]

----------------------------------------------------------------------------
(* Acceptability: the methods *)

Ok(v) == [exc |-> "none", value |-> v]
Raise(e) == [exc |-> e, value |-> <<>>]

\* int(s) for a one-digit string
IntOf(s) == CHOOSE k \in 0..9 : Digits[k + 1] = s[1]

\* One step of the loop of _load_word_freq on a state [exc, word_freq, n].
LoadLine(st, line, threshold) ==
    LET parts == SplitOn(line, " ")
        wf    == st.word_freq
    IN  IF Len(parts) # 2
        THEN [st EXCEPT !.exc = "ValueError", !.n = st.n + 1]
        ELSE LET word == parts[1]
                 freq == IntOf(parts[2])
             IN  [st EXCEPT
                    !.n = st.n + 1,
                    !.word_freq =
                        IF freq > threshold
                        THEN DictPut(wf, word, freq)
                        ELSE DictPut(wf, UNK, DictGet(wf, UNK, 0) + 1)]

RECURSIVE LoadLines(_, _, _)
LoadLines(st, lines, threshold) ==
    IF lines = <<>> \/ st.exc # "none" THEN st
    ELSE LoadLines(LoadLine(st, Head(lines), threshold), Tail(lines), threshold)

\* Acceptability._load_word_freq
_load_word_freq(file, threshold) ==
    IF ~file.exists
    THEN [exc |-> "FileNotFoundError", word_freq |-> EmptyDict, n |-> 0]
    ELSE LoadLines([exc |-> "none", word_freq |-> EmptyDict, n |-> 0],
                   file.lines, threshold)

\* The inner loop of calc_unigram_scores: the default of dict.get is
\* evaluated for every word, before the lookup of the word.
RECURSIVE SentenceUnigram(_, _, _, _)
SentenceUnigram(words, wf, n, acc) ==
    IF words = <<>> THEN Ok(acc)
    ELSE IF UNK \notin DOMAIN wf THEN Raise("KeyError")
    ELSE IF n = 0 THEN Raise("ZeroDivisionError")
    ELSE SentenceUnigram(Tail(words), wf, n,
             acc + LogRatio(DictGet(wf, Head(words), wf[UNK]), n))

RECURSIVE UnigramLoop(_, _, _, _)
UnigramLoop(sents, wf, n, acc) ==
    IF sents = <<>> THEN Ok(acc)
    ELSE LET r == SentenceUnigram(SplitWs(Head(sents)), wf, n, 0)
         IN  IF r.exc # "none" THEN Raise(r.exc)
             ELSE UnigramLoop(Tail(sents), wf, n, Append(acc, r.value))

\* Acceptability.calc_unigram_scores
calc_unigram_scores(sents, wf, n) == UnigramLoop(sents, wf, n, <<>>)

\* Acceptability.calc_mean_unigram_scores
calc_mean_unigram_scores(uni, sents) ==
    [i \in 1..Min(Len(uni), Len(sents)) |->
        IF Len(sents) = 0 THEN None
        ELSE Some(FloatDiv(uni[i], Len(sents) * 1000))]

\* One line of the scorer's output in get_rnnlm_scores
RECURSIVE ParseScores(_, _)
ParseScores(lines, scores) ==
    IF lines = <<>> THEN scores
    ELSE LET line == Head(lines)
         IN  ParseScores(Tail(lines),
                 IF line.txt = "" THEN scores
                 ELSE IF line.txt = OUT_OF_VOCABULARY THEN Append(scores, None)
                 ELSE IF line.txt = "num" THEN Append(scores, Some(line.val))
                 ELSE scores)

\* Acceptability.get_rnnlm_scores, given the finished process
get_rnnlm_scores(proc) == ParseScores(proc.stdout, <<>>)

\* _f
_f(score, unigram_score, length, method) ==
    CASE method = "div" ->
            IF unigram_score = 0 THEN Raise("ZeroDivisionError")
            ELSE Ok(FloatDiv(0 - score, unigram_score))
      [] method = "sub" -> Ok(score - unigram_score)
      [] method = "len" ->
            IF length = 0 THEN Raise("ZeroDivisionError")
            ELSE Ok(FloatDiv(score - unigram_score, length * 1000))
      [] OTHER -> Raise("ValueError")

\* The condition with the numpy.isclose test left out
IsAbsentNoGuard(score, unigram_score) == score = None

\* The condition under which calc_normalized_scores yields None
IsAbsent(score, unigram_score) == score = None \/ IsClose(unigram_score, 0)

RECURSIVE NormalizedLoop(_, _, _, _, _, _)
NormalizedLoop(i, rs, us, ss, method, acc) ==
    IF i > Len(rs) \/ i > Len(us) \/ i > Len(ss) THEN Ok(acc)
    ELSE IF IsAbsent(rs[i], us[i])
         THEN NormalizedLoop(i + 1, rs, us, ss, method, Append(acc, None))
    ELSE LET r == _f(rs[i][1], us[i], Len(ss[i]), method)
         IN  IF r.exc # "none" THEN Raise(r.exc)
             ELSE NormalizedLoop(i + 1, rs, us, ss, method,
                                 Append(acc, Some(r.value)))

\* Acceptability.calc_normalized_scores
calc_normalized_scores(rs, us, ss, method) == NormalizedLoop(1, rs, us, ss, method, <<>>)

----------------------------------------------------------------------------
(* Acceptability.__init__, one action per statement *)

\* The statements with the scorer called before the file check
CtorStepsLateCheck == <<"split", "rnnlm", "isfile", "load", "unigram", "mean",
                        "div", "sub", "len">>

\* The statements of __init__, in program order.
CtorSteps == <<"split", "isfile", "load", "rnnlm", "unigram", "mean",
               "div", "sub", "len">>

StepIndex(step) == CHOOSE k \in DOMAIN CtorSteps : CtorSteps[k] = step

\* The position after a statement that completed normally.
After(step) ==
    IF StepIndex(step) = Len(CtorSteps) THEN "done"
    ELSE CtorSteps[StepIndex(step) + 1]

AccInit ==
    /\ text \in Texts
    /\ vocabFile \in VocabFiles
    /\ fault \in Faults
    /\ pc = CtorSteps[1]
    /\ error = "none"
    /\ attrs = {}
    /\ sentences = <<>>
    /\ word_freq = EmptyDict
    /\ n_total_words = 0
    /\ process = NoProcess
    /\ rnnlm_scores = <<>>
    /\ unigram_scores = <<>>
    /\ mean_unigram_scores = <<>>
    /\ normalized_scores_div = <<>>
    /\ normalized_scores_sub = <<>>
    /\ normalized_scores_len = <<>>
    /\ call = [method |-> "", exc |-> "none", value |-> <<>>]

AccIdle ==
    /\ text = <<>>
    /\ vocabFile = [exists |-> FALSE, lines |-> <<>>]
    /\ fault = "ok"
    /\ pc = "idle"
    /\ error = "none"
    /\ attrs = {}
    /\ sentences = <<>>
    /\ word_freq = EmptyDict
    /\ n_total_words = 0
    /\ process = NoProcess
    /\ rnnlm_scores = <<>>
    /\ unigram_scores = <<>>
    /\ mean_unigram_scores = <<>>
    /\ normalized_scores_div = <<>>
    /\ normalized_scores_sub = <<>>
    /\ normalized_scores_len = <<>>
    /\ call = [method |-> "", exc |-> "none", value |-> <<>>]

\* self.text = text; self.sentences = [...]
Split ==
    /\ pc = "split"
    /\ sentences' = SplitSentences(text)
    /\ attrs' = attrs \cup {"text", "sentences"}
    /\ pc' = After("split")
    /\ UNCHANGED <<text, vocabFile, fault, error, word_freq, n_total_words,
                   process, rnnlm_scores, unigram_scores, mean_unigram_scores,
                   normalized_scores_div, normalized_scores_sub,
                   normalized_scores_len, call>>

\* if not os.path.isfile(rnnlm_model_path): raise FileNotFoundError
IsFile ==
    /\ pc = "isfile"
    /\ IF vocabFile.exists
       THEN /\ pc' = After("isfile")
            /\ attrs' = attrs \cup {"rnnlm_model_path"}
            /\ error' = error
       ELSE /\ pc' = "raised"
            /\ error' = "FileNotFoundError"
            /\ attrs' = attrs
    /\ UNCHANGED <<text, vocabFile, fault, sentences, word_freq, n_total_words,
                   process, rnnlm_scores, unigram_scores, mean_unigram_scores,
                   normalized_scores_div, normalized_scores_sub,
                   normalized_scores_len, call>>

\* self.word_freq, self.n_total_words = self._load_word_freq(threshold=1)
Load ==
    /\ pc = "load"
    /\ LET r == _load_word_freq(vocabFile, Threshold)
       IN  IF r.exc = "none"
           THEN /\ word_freq' = r.word_freq
                /\ n_total_words' = r.n
                /\ attrs' = attrs \cup {"word_freq", "n_total_words"}
                /\ pc' = After("load")
                /\ error' = error
           ELSE /\ pc' = "raised"
                /\ error' = r.exc
                /\ UNCHANGED <<word_freq, n_total_words, attrs>>
    /\ UNCHANGED <<text, vocabFile, fault, sentences,
                   process, rnnlm_scores, unigram_scores, mean_unigram_scores,
                   normalized_scores_div, normalized_scores_sub,
                   normalized_scores_len, call>>

\* self.rnnlm_scores = self.get_rnnlm_scores(): the process is started, its
\* output collected by communicate(), its return code never read.
Rnnlm ==
    /\ pc = "rnnlm"
    /\ IF fault = "nostart"
       THEN /\ pc' = "raised"
            /\ error' = "OSError"
            /\ UNCHANGED <<process, rnnlm_scores, attrs>>
       ELSE LET proc == [started    |-> TRUE,
                         stdout     |-> ScorerStdout(text, fault),
                         returncode |-> ScorerReturnCode(fault)]
            IN  /\ process' = proc
                /\ rnnlm_scores' = get_rnnlm_scores(proc)
                /\ attrs' = attrs \cup {"rnnlm_scores"}
                /\ pc' = After("rnnlm")
                /\ error' = error
    /\ UNCHANGED <<text, vocabFile, fault, sentences, word_freq, n_total_words,
                   unigram_scores, mean_unigram_scores,
                   normalized_scores_div, normalized_scores_sub,
                   normalized_scores_len, call>>

\* self.unigram_scores = self.calc_unigram_scores()
Unigram ==
    /\ pc = "unigram"
    /\ LET r == calc_unigram_scores(sentences, word_freq, n_total_words)
       IN  IF r.exc = "none"
           THEN /\ unigram_scores' = r.value
                /\ attrs' = attrs \cup {"unigram_scores"}
                /\ pc' = After("unigram")
                /\ error' = error
           ELSE /\ pc' = "raised"
                /\ error' = r.exc
                /\ UNCHANGED <<unigram_scores, attrs>>
    /\ UNCHANGED <<text, vocabFile, fault, sentences, word_freq, n_total_words,
                   process, rnnlm_scores, mean_unigram_scores,
                   normalized_scores_div, normalized_scores_sub,
                   normalized_scores_len, call>>

\* self.mean_unigram_scores = self.calc_mean_unigram_scores()
Mean ==
    /\ pc = "mean"
    /\ mean_unigram_scores' = calc_mean_unigram_scores(unigram_scores, sentences)
    /\ attrs' = attrs \cup {"mean_unigram_scores"}
    /\ pc' = After("mean")
    /\ UNCHANGED <<text, vocabFile, fault, error, sentences, word_freq,
                   n_total_words, process, rnnlm_scores, unigram_scores,
                   normalized_scores_div, normalized_scores_sub,
                   normalized_scores_len, call>>

\* self.normalized_scores_div = self.calc_normalized_scores('div')
NormDiv ==
    /\ pc = "div"
    /\ LET r == calc_normalized_scores(rnnlm_scores, unigram_scores, sentences, "div")
       IN  IF r.exc = "none"
           THEN /\ normalized_scores_div' = r.value
                /\ attrs' = attrs \cup {"normalized_scores_div"}
                /\ pc' = After("div")
                /\ error' = error
           ELSE /\ pc' = "raised"
                /\ error' = r.exc
                /\ UNCHANGED <<normalized_scores_div, attrs>>
    /\ UNCHANGED <<text, vocabFile, fault, sentences, word_freq, n_total_words,
                   process, rnnlm_scores, unigram_scores, mean_unigram_scores,
                   normalized_scores_sub, normalized_scores_len, call>>

\* self.normalized_scores_sub = self.calc_normalized_scores('sub')
NormSub ==
    /\ pc = "sub"
    /\ LET r == calc_normalized_scores(rnnlm_scores, unigram_scores, sentences, "sub")
       IN  IF r.exc = "none"
           THEN /\ normalized_scores_sub' = r.value
                /\ attrs' = attrs \cup {"normalized_scores_sub"}
                /\ pc' = After("sub")
                /\ error' = error
           ELSE /\ pc' = "raised"
                /\ error' = r.exc
                /\ UNCHANGED <<normalized_scores_sub, attrs>>
    /\ UNCHANGED <<text, vocabFile, fault, sentences, word_freq, n_total_words,
                   process, rnnlm_scores, unigram_scores, mean_unigram_scores,
                   normalized_scores_div, normalized_scores_len, call>>

\* self.normalized_scores_len = self.calc_normalized_scores('len')
NormLen ==
    /\ pc = "len"
    /\ LET r == calc_normalized_scores(rnnlm_scores, unigram_scores, sentences, "len")
       IN  IF r.exc = "none"
           THEN /\ normalized_scores_len' = r.value
                /\ attrs' = attrs \cup {"normalized_scores_len"}
                /\ pc' = After("len")
                /\ error' = error
           ELSE /\ pc' = "raised"
                /\ error' = r.exc
                /\ UNCHANGED <<normalized_scores_len, attrs>>
    /\ UNCHANGED <<text, vocabFile, fault, sentences, word_freq, n_total_words,
                   process, rnnlm_scores, unigram_scores, mean_unigram_scores,
                   normalized_scores_div, normalized_scores_sub, call>>

\* A caller's acceptability.calc_normalized_scores(method) on the finished
\* object, with any method name.
CallNormalized ==
    /\ pc = "done"
    /\ \E m \in Methods \cup {"mean"} :
          LET r == calc_normalized_scores(rnnlm_scores, unigram_scores, sentences, m)
          IN  call' = [method |-> m, exc |-> r.exc, value |-> r.value]
    /\ UNCHANGED <<text, vocabFile, fault, pc, error, attrs, sentences,
                   word_freq, n_total_words, process, rnnlm_scores,
                   unigram_scores, mean_unigram_scores, normalized_scores_div,
                   normalized_scores_sub, normalized_scores_len>>

----------------------------------------------------------------------------
(* Modality._rates and Analyser.calc_modality_rates *)

\* A chunk description (bnst.fstring) is a sequence of feature tags; a tag
\* "<name-rest>" is the sequence <<name, rest...>>.
TagEvidence == <<"modality", "evidence">>
TagWill == <<"modality", "will">>
TagOther == <<"BGH">>

\* What the parser returns for a sentence: the descriptions of its chunks.
ParseChoices ==
    { <<>>,
      << <<TagOther, TagEvidence>> >>,
      << <<TagOther>>, <<TagWill>> >>,
      << <<TagEvidence, TagWill>>, <<TagOther>> >> }

\* "".join([chunk.description for chunk in chunks])
RECURSIVE JoinDescriptions(_)
JoinDescriptions(cs) ==
    IF cs = <<>> THEN <<>> ELSE Head(cs) \o JoinDescriptions(Tail(cs))

\* set(re.findall("<modality.*?>", s)): the whole tags that start with the name
FindModalityTags(s) == {t \in Range(s) : t[1] = "modality"}

\* set(re.findall("<modality-(.+?)>", s)): the part after the name
FindModalityNames(s) == {Tail(t) : t \in {u \in Range(s) : u[1] = "modality" /\ Len(u) > 1}}

\* modality_counter += Counter(ms)
CounterAdd(counter, ms) ==
    [k \in (DOMAIN counter) \cup ms |->
        DictGet(counter, k, 0) + (IF k \in ms THEN 1 ELSE 0)]

\* dict([(k, float(c) / n) for k, c in modality_counter.items()])
RatesOf(counter, n) == [k \in DOMAIN counter |-> FloatDiv(counter[k] * 1000, n * 1000)]

\* The chunks the body of Modality._rates joins in iteration i: the list
\* chunks is created before the loop and only ever appended to.
ModalityChunks(acc, parse) == acc \o parse

ModInit ==
    /\ parses \in SeqsUpTo(ParseChoices, MaxSentences)
    /\ m_pc = "loop" /\ m_i = 1 /\ m_chunks = <<>>
    /\ m_counter = EmptyDict /\ m_rates = EmptyDict
    /\ a_pc = "loop" /\ a_i = 1
    /\ a_counter = EmptyDict /\ a_rates = EmptyDict

ModIdle ==
    /\ parses = <<>>
    /\ m_pc = "idle" /\ m_i = 1 /\ m_chunks = <<>>
    /\ m_counter = EmptyDict /\ m_rates = EmptyDict
    /\ a_pc = "idle" /\ a_i = 1
    /\ a_counter = EmptyDict /\ a_rates = EmptyDict

\* One iteration of the loop of Modality._rates
ModalityIter ==
    /\ m_pc = "loop" /\ m_i <= Len(parses)
    /\ LET cs == ModalityChunks(m_chunks, parses[m_i])
       IN  /\ m_chunks' = cs
           /\ m_counter' = CounterAdd(m_counter, FindModalityTags(JoinDescriptions(cs)))
    /\ m_i' = m_i + 1
    /\ UNCHANGED <<parses, m_pc, m_rates, a_pc, a_i, a_counter, a_rates>>

\* The return of Modality._rates
ModalityReturn ==
    /\ m_pc = "loop" /\ m_i > Len(parses)
    /\ m_rates' = RatesOf(m_counter, Len(parses))
    /\ m_pc' = "done"
    /\ UNCHANGED <<parses, m_i, m_chunks, m_counter, a_pc, a_i, a_counter, a_rates>>

\* One iteration of the loop of Analyser.calc_modality_rates: chunks = []
\* is inside the loop.
AnalyserIter ==
    /\ a_pc = "loop" /\ a_i <= Len(parses)
    /\ a_counter' = CounterAdd(a_counter, FindModalityNames(JoinDescriptions(parses[a_i])))
    /\ a_i' = a_i + 1
    /\ UNCHANGED <<parses, m_pc, m_i, m_chunks, m_counter, m_rates, a_pc, a_rates>>

\* The return of Analyser.calc_modality_rates
AnalyserReturn ==
    /\ a_pc = "loop" /\ a_i > Len(parses)
    /\ a_rates' = RatesOf(a_counter, Len(parses))
    /\ a_pc' = "done"
    /\ UNCHANGED <<parses, m_pc, m_i, m_chunks, m_counter, m_rates, a_i, a_counter>>

----------------------------------------------------------------------------
(* Tree *)

Links == (0 - 2)..(MaxChunks - 1)

\* seq[k] in Python: negative k counts from the end
PyIndexValid(seq, k) == (0 - Len(seq)) <= k /\ k < Len(seq)
PyIndex(seq, k) == IF k >= 0 THEN seq[k + 1] ELSE seq[Len(seq) + k + 1]

\* self.chunks[chunk_id].link == -1
IsRoot(cs, chunk_id) == PyIndex(cs, chunk_id) = 0 - 1

\* The arguments of the recursive call of find_next_chunk
NextCall(cs, chunk_id, depth) ==
    [chunk_id |-> PyIndex(cs, chunk_id), depth |-> depth + 1]

\* The update without its comparison: the last depth wins
UpdateDepthLast(current, depth) == depth

\* if depth > current_tree_depth: current_tree_depth = depth
UpdateDepth(current, depth) == IF depth > current THEN depth ELSE current

TreeInit ==
    /\ chunks \in SeqsUpTo(Links, MaxChunks)
    /\ t_pc = "loop" /\ t_i = 0 /\ t_chunk_id = 0 /\ t_depth = 0
    /\ current_tree_depth = 0 /\ tree_depth = 0 /\ t_error = "none"

TreeIdle ==
    /\ chunks = <<>>
    /\ t_pc = "idle" /\ t_i = 0 /\ t_chunk_id = 0 /\ t_depth = 0
    /\ current_tree_depth = 0 /\ tree_depth = 0 /\ t_error = "none"

\* for i, chunk in enumerate(self.chunks): depth = self.find_next_chunk(i, 0)
DepthLoop ==
    /\ t_pc = "loop" /\ t_i < Len(chunks)
    /\ t_pc' = "find" /\ t_chunk_id' = t_i /\ t_depth' = 0
    /\ UNCHANGED <<chunks, t_i, current_tree_depth, tree_depth, t_error>>

\* return current_tree_depth; self.depth = ...
DepthReturn ==
    /\ t_pc = "loop" /\ t_i >= Len(chunks)
    /\ tree_depth' = current_tree_depth
    /\ t_pc' = "done"
    /\ UNCHANGED <<chunks, t_i, t_chunk_id, t_depth, current_tree_depth, t_error>>

\* find_next_chunk at a root: return depth, back in the loop of depth()
FindRoot ==
    /\ t_pc = "find"
    /\ PyIndexValid(chunks, t_chunk_id)
    /\ IsRoot(chunks, t_chunk_id)
    /\ current_tree_depth' = UpdateDepth(current_tree_depth, t_depth)
    /\ t_i' = t_i + 1
    /\ t_pc' = "loop"
    /\ UNCHANGED <<chunks, t_chunk_id, t_depth, tree_depth, t_error>>

\* find_next_chunk elsewhere: the recursive call
FindRecurse ==
    /\ t_pc = "find"
    /\ PyIndexValid(chunks, t_chunk_id)
    /\ ~IsRoot(chunks, t_chunk_id)
    /\ t_depth + 1 < MaxRecursion
    /\ t_chunk_id' = NextCall(chunks, t_chunk_id, t_depth).chunk_id
    /\ t_depth' = NextCall(chunks, t_chunk_id, t_depth).depth
    /\ UNCHANGED <<chunks, t_pc, t_i, current_tree_depth, tree_depth, t_error>>

\* find_next_chunk raising: an index outside the list, or too many frames
FindRaise ==
    /\ t_pc = "find"
    /\ \/ /\ ~PyIndexValid(chunks, t_chunk_id)
          /\ t_error' = "IndexError"
       \/ /\ PyIndexValid(chunks, t_chunk_id)
          /\ ~IsRoot(chunks, t_chunk_id)
          /\ t_depth + 1 >= MaxRecursion
          /\ t_error' = "RecursionError"
    /\ t_pc' = "raised"
    /\ UNCHANGED <<chunks, t_i, t_chunk_id, t_depth, current_tree_depth, tree_depth>>

----------------------------------------------------------------------------
(* Specifications *)

Init == AccInit /\ ModIdle /\ TreeIdle

Next ==
    \/ Split /\ UNCHANGED <<modVars, treeVars>>
    \/ IsFile /\ UNCHANGED <<modVars, treeVars>>
    \/ Load /\ UNCHANGED <<modVars, treeVars>>
    \/ Rnnlm /\ UNCHANGED <<modVars, treeVars>>
    \/ Unigram /\ UNCHANGED <<modVars, treeVars>>
    \/ Mean /\ UNCHANGED <<modVars, treeVars>>
    \/ NormDiv /\ UNCHANGED <<modVars, treeVars>>
    \/ NormSub /\ UNCHANGED <<modVars, treeVars>>
    \/ NormLen /\ UNCHANGED <<modVars, treeVars>>
    \/ CallNormalized /\ UNCHANGED <<modVars, treeVars>>

\* Acceptability
Spec == Init /\ [][Next]_vars

ModalityInit == AccIdle /\ ModInit /\ TreeIdle

ModalityNext ==
    \/ ModalityIter /\ UNCHANGED <<accVars, treeVars>>
    \/ ModalityReturn /\ UNCHANGED <<accVars, treeVars>>
    \/ AnalyserIter /\ UNCHANGED <<accVars, treeVars>>
    \/ AnalyserReturn /\ UNCHANGED <<accVars, treeVars>>

\* Modality and Analyser.calc_modality_rates on the same parses
SpecModality == ModalityInit /\ [][ModalityNext]_vars

TreeSpecInit == AccIdle /\ ModIdle /\ TreeInit

TreeNext ==
    \/ DepthLoop /\ UNCHANGED <<accVars, modVars>>
    \/ DepthReturn /\ UNCHANGED <<accVars, modVars>>
    \/ FindRoot /\ UNCHANGED <<accVars, modVars>>
    \/ FindRecurse /\ UNCHANGED <<accVars, modVars>>
    \/ FindRaise /\ UNCHANGED <<accVars, modVars>>

\* Tree.__init__: one thread runs the constructor to its end, so a step
\* that can be taken is taken.
SpecTree == TreeSpecInit /\ [][TreeNext]_vars /\ WF_vars(TreeNext)

----------------------------------------------------------------------------
(* Properties of Acceptability, checked under Spec *)

NormalizedAttrs ==
    {"normalized_scores_div", "normalized_scores_sub", "normalized_scores_len"}

NormalizedOf(m) ==
    CASE m = "div" -> normalized_scores_div
      [] m = "sub" -> normalized_scores_sub
      [] m = "len" -> normalized_scores_len

NormalizedAttr(m) ==
    CASE m = "div" -> "normalized_scores_div"
      [] m = "sub" -> "normalized_scores_sub"
      [] m = "len" -> "normalized_scores_len"

\* C1: when the scorer returned a number of scores other than the number of
\* sentences, construction ends in a fatal alignment error and no
\* normalized-score sequence is produced.
C1_MismatchIsFatal ==
    ("rnnlm_scores" \in attrs /\ Len(rnnlm_scores) # Len(sentences))
        => (attrs \cap NormalizedAttrs = {} /\ pc # "done")

\* The unigram score the specification gives a sentence: a word found in
\* frequencies contributes its own frequency, any other word the unknown
\* bucket's.
RECURSIVE SumLog(_, _, _)
SumLog(words, wf, n) ==
    IF words = <<>> THEN 0
    ELSE LogRatio(IF Head(words) \in DOMAIN wf THEN wf[Head(words)] ELSE wf[UNK], n)
         + SumLog(Tail(words), wf, n)

\* The words of the sentences are all found in frequencies.
AllWordsKnown ==
    \A i \in DOMAIN sentences : Range(SplitWs(sentences[i])) \subseteq DOMAIN word_freq

\* C2: once the vocabulary is built, calc_unigram_scores yields a score for
\* every sentence, whether or not an unknown bucket exists; the unknown
\* bucket is needed only for a word absent from frequencies.  Stated for the
\* texts whose words are all found in frequencies, where no bucket is needed.
C2_UnigramAlwaysScores ==
    ("rnnlm_scores" \in attrs /\ pc # "unigram" /\ AllWordsKnown)
        => /\ "unigram_scores" \in attrs
           /\ Len(unigram_scores) = Len(sentences)
           /\ \A i \in DOMAIN sentences :
                 unigram_scores[i] = SumLog(SplitWs(sentences[i]), word_freq, n_total_words)

\* The vocabulary lines as (word, count) pairs
VocabEntries ==
    [i \in DOMAIN vocabFile.lines |->
        LET parts == SplitOn(vocabFile.lines[i], " ")
        IN  [word |-> parts[1], freq |-> IntOf(parts[2])]]

\* C3: _load_word_freq returns totalWords = number of lines,
\* frequencies[word] = count for every line with count > threshold, and
\* frequencies["<unk/>"] = the number of lines with count <= threshold.
C3_EachLineClassifiedOnce ==
    "word_freq" \in attrs
        => /\ n_total_words = Len(vocabFile.lines)
           /\ \A i \in DOMAIN VocabEntries :
                 VocabEntries[i].freq > Threshold
                     => /\ VocabEntries[i].word \in DOMAIN word_freq
                        /\ word_freq[VocabEntries[i].word] = VocabEntries[i].freq
           /\ DictGet(word_freq, UNK, 0) =
                 Cardinality({i \in DOMAIN VocabEntries : VocabEntries[i].freq <= Threshold})

\* C4: at every position of a normalized-score sequence, for div, sub and
\* len alike, the entry is None when the external score there is None or the
\* unigram score there is 0.0, and is a value otherwise; no normalization
\* raises.
C4_AbsentExactlyWhenGuarded ==
    /\ error \notin {"ZeroDivisionError", "ValueError"}
    /\ \A m \in Methods :
          NormalizedAttr(m) \in attrs =>
             /\ Len(NormalizedOf(m)) = Min(Len(rnnlm_scores), Len(unigram_scores))
             /\ \A i \in DOMAIN NormalizedOf(m) :
                   /\ (rnnlm_scores[i] = None \/ unigram_scores[i] = 0)
                         => NormalizedOf(m)[i] = None
                   /\ (rnnlm_scores[i] # None /\ unigram_scores[i] # 0)
                         => Len(NormalizedOf(m)[i]) = 1

\* A finished object, the scorer well behaved, with a scored sentence of
\* unigram score 0.0 (absent in all three sequences) and a scored sentence of
\* another unigram score (present in all three).
C4_Witness ==
    /\ pc = "done" /\ fault = "ok"
    /\ \E i \in DOMAIN normalized_scores_len :
          /\ unigram_scores[i] = 0 /\ rnnlm_scores[i] # None
          /\ \A m \in Methods : NormalizedOf(m)[i] = None
    /\ \E j \in DOMAIN normalized_scores_len :
          /\ unigram_scores[j] # 0 /\ rnnlm_scores[j] # None
          /\ \A m \in Methods : NormalizedOf(m)[j] # None

\* C5: calc_normalized_scores with a method name other than div, sub and
\* len fails with an invalid-argument error, whatever the text and scores.
C5_UnknownMethodRaises ==
    (call.method # "" /\ call.method \notin Methods) => call.exc = "ValueError"

\* The external score that belongs to the i-th sentence
ExternalOf(sents, i) ==
    LET r == ScorerReport(sents, i)
    IN  IF r.txt = OUT_OF_VOCABULARY THEN None ELSE Some(r.val)

\* C6: at every position that holds a sentence, the i-th external score is
\* the score of the i-th sentence, and the i-th normalized score fuses it
\* with the i-th sentence's unigram score, whatever lines the scorer emits.
C6_PositionalAlignment ==
    /\ "rnnlm_scores" \in attrs =>
          \A i \in DOMAIN rnnlm_scores :
             i <= Len(sentences) => rnnlm_scores[i] = ExternalOf(sentences, i)
    /\ "normalized_scores_sub" \in attrs =>
          \A i \in DOMAIN normalized_scores_sub :
             normalized_scores_sub[i] =
                IF IsAbsent(ExternalOf(sentences, i), unigram_scores[i]) THEN None
                ELSE Some(ExternalOf(sentences, i)[1] - unigram_scores[i])

\* C7: when the scorer process exits with a non-zero status, the constructor
\* does not complete.
C7_AbnormalExitIsFatal ==
    (process.started /\ process.returncode # 0) => pc # "done"

\* C8: when the vocabulary path names no file, construction fails with
\* FileNotFoundError, before any vocabulary line is parsed and before the
\* scorer is started, and produces no model and no scores.
C8_MissingFileFailsFirst ==
    ~vocabFile.exists
        => /\ pc \in {"split", "isfile", "raised"}
           /\ pc = "raised" => error = "FileNotFoundError"
           /\ ~process.started
           /\ attrs \subseteq {"text", "sentences"}
           /\ word_freq = EmptyDict /\ n_total_words = 0

\* The constructor has failed on a missing file, with sentences to score.
C8_Witness ==
    /\ ~vocabFile.exists /\ pc = "raised" /\ error = "FileNotFoundError"
    /\ sentences # <<>> /\ fault = "ok"

----------------------------------------------------------------------------
(* Properties of Modality, checked under SpecModality *)

\* The modality tags of one sentence's own chunks
OwnTags(parse) == FindModalityTags(JoinDescriptions(parse))

\* C9: Modality.rates maps each marker to the number of sentences whose own
\* parse contains it, divided by the number of sentences.
C9_RatesCountOwnSentences ==
    m_pc = "done"
        => m_rates =
              [k \in UNION {OwnTags(parses[i]) : i \in DOMAIN parses} |->
                  FloatDiv(Cardinality({i \in DOMAIN parses : k \in OwnTags(parses[i])}) * 1000,
                           Len(parses) * 1000)]

----------------------------------------------------------------------------
(* Properties of Tree, checked under SpecTree *)

\* The number of link hops from chunk_id to its root, or -1 when the links
\* lead outside the list or around a cycle.
RECURSIVE HopsFrom(_, _, _)
HopsFrom(cs, chunk_id, fuel) ==
    IF fuel = 0 \/ ~PyIndexValid(cs, chunk_id) THEN 0 - 1
    ELSE IF PyIndex(cs, chunk_id) = 0 - 1 THEN 0
    ELSE LET h == HopsFrom(cs, PyIndex(cs, chunk_id), fuel - 1)
         IN  IF h < 0 THEN 0 - 1 ELSE h + 1

Hops(cs, i) == HopsFrom(cs, i, Len(cs))

\* Every chunk reaches a root.
WellFormed(cs) == \A i \in 0..(Len(cs) - 1) : Hops(cs, i) >= 0

MaxHops(cs) ==
    IF cs = <<>> THEN 0
    ELSE CHOOSE h \in 0..Len(cs) :
            /\ \E i \in 0..(Len(cs) - 1) : Hops(cs, i) = h
            /\ \A i \in 0..(Len(cs) - 1) : Hops(cs, i) <= h

====
